---------------------------- MODULE Spec2Model ----------------------------
(***************************************************************************)
(* Model of the monopole structural analysis engine                        *)
(* (class MonopoleStructuralAnalysis, src/src/15m (2).py).                 *)
(*                                                                         *)
(* The engine is a set of pure methods.  The state of the model is the     *)
(* list of invocations a caller still has to make and the outcomes of the  *)
(* invocations already made.  Every method is one action.                  *)
(*                                                                         *)
(* Numbers.  Python floats are modelled as exact rationals n/d over        *)
(* arbitrary-precision naturals (TLC integers are 32 bit, and D^4 for a    *)
(* 628 mm tube already exceeds them).  math.pi is the decimal value of the *)
(* double 3.141592653589793.  The one irrational operation, the power law  *)
(* of calculate_kz, is rounded down to a multiple of 1e-6.                 *)
(***************************************************************************)
EXTENDS Integers, Sequences, FiniteSets, TLC

VARIABLES calls, results

vars == <<calls, results>>

-----------------------------------------------------------------------------
(* Arbitrary-precision naturals: little-endian sequences of limbs in       *)
(* 0..LimbBase-1 without leading (high) zero limbs; zero is <<>>.          *)

LimbBase == 100 * 100

RECURSIVE BFromInt(_)
BFromInt(i) == IF i = 0 THEN <<>> ELSE <<i % LimbBase>> \o BFromInt(i \div LimbBase)

\* a without its high zero limbs: as many limbs as have a non-zero limb at or above them
BStrip(a) == SubSeq(a, 1, Cardinality({i \in 1..Len(a) : \E k \in i..Len(a) : a[k] # 0}))

\* the limb i of a, 0 beyond its length
Limb(a, i) == IF i <= Len(a) THEN a[i] ELSE 0

\* the limbs from i up of a + b + c * LimbBase^(i-1), after the limbs acc below i
RECURSIVE BAddC(_, _, _, _, _)
BAddC(a, b, i, c, acc) ==
    IF Len(acc) >= 0 /\ i > Len(a) /\ i > Len(b) THEN (IF c = 0 THEN acc ELSE Append(acc, c))
    ELSE BAddC(a, b, i + 1, (Limb(a, i) + Limb(b, i) + c) \div LimbBase,
               Append(acc, (Limb(a, i) + Limb(b, i) + c) % LimbBase))

BAdd(a, b) == BAddC(a, b, 1, 0, <<>>)

\* the limbs from i up of a - b - c * LimbBase^(i-1), after the limbs acc below i
RECURSIVE BSubC(_, _, _, _, _)
BSubC(a, b, i, c, acc) ==
    IF Len(acc) >= 0 /\ i > Len(a) THEN acc
    ELSE BSubC(a, b, i + 1, IF a[i] - Limb(b, i) - c < 0 THEN 1 ELSE 0,
               Append(acc, (a[i] - Limb(b, i) - c + LimbBase) % LimbBase))

\* a - b for a >= b
BSub(a, b) == BStrip(BSubC(a, b, 1, 0, <<>>))

\* the limbs from i up of a * k + c * LimbBase^(i-1), after the limbs acc below i
RECURSIVE BMulLimbC(_, _, _, _, _)
BMulLimbC(a, k, i, c, acc) ==
    IF Len(acc) >= 0 /\ i > Len(a) THEN (IF c = 0 THEN acc ELSE Append(acc, c))
    ELSE BMulLimbC(a, k, i + 1, (a[i] * k + c) \div LimbBase, Append(acc, (a[i] * k + c) % LimbBase))

\* a * k for one limb k
BMulLimb(a, k) == IF k = 0 THEN <<>> ELSE BMulLimbC(a, k, 1, 0, <<>>)

BShift(a) == IF a = <<>> THEN <<>> ELSE <<0>> \o a

\* a * (the limbs j, j-1, ..., 1 of b) + acc * LimbBase^j, from the high limb down
RECURSIVE BMulI(_, _, _, _)
BMulI(a, b, j, acc) ==
    IF Len(acc) >= 0 /\ j = 0 THEN acc
    ELSE BMulI(a, b, j - 1, BAdd(BMulLimb(a, b[j]), BShift(acc)))

BMul(a, b) ==
    IF a = <<>> \/ b = <<>> THEN <<>>
    ELSE IF Len(a) < Len(b) THEN BMulI(b, a, Len(a), <<>>)
    ELSE BMulI(a, b, Len(b), <<>>)

\* -1, 0, 1 as a < b, a = b, a > b: the highest limb that differs decides
BCmp(a, b) ==
    IF Len(a) < Len(b) THEN -1
    ELSE IF Len(a) > Len(b) THEN 1
    ELSE IF a = b THEN 0
    ELSE IF \E i \in 1..Len(a) : a[i] < b[i] /\ \A k \in (i + 1)..Len(a) : a[k] = b[k] THEN -1
    ELSE 1

RECURSIVE BPow(_, _)
BPow(a, k) == IF Len(a) >= 0 /\ k = 0 THEN <<1>> ELSE BMul(a, BPow(a, k - 1))

-----------------------------------------------------------------------------
(* Exact rationals [neg, n, d]: the value is (-1)^neg * n / d, d > 0.      *)
(* Common trailing zero limbs of n and d are dropped; zero is 0/1.         *)
(* Every operation looks at its operands first, so that an operand is      *)
(* evaluated before the operation on it begins.                            *)

RatZero == [neg |-> FALSE, n |-> <<>>, d |-> <<1>>]

\* q without the z low limbs of n and of d
RatDrop(q, z) ==
    [neg |-> q.neg, n |-> SubSeq(q.n, z + 1, Len(q.n)), d |-> SubSeq(q.d, z + 1, Len(q.d))]

\* the low limbs that are zero in n and in d are dropped, all but the last limb of d
RatNorm(q) ==
    IF q.n = <<>> THEN RatZero
    ELSE RatDrop(q, Cardinality({i \in 1..(Len(q.d) - 1) :
                                    \A k \in 1..i : Limb(q.n, k) = 0 /\ q.d[k] = 0}))
Abs(i) == IF i < 0 THEN -i ELSE i

\* the rational i/j of machine integers, j > 0
RatI(i, j) == RatNorm([neg |-> i < 0, n |-> BFromInt(Abs(i)), d |-> BFromInt(j)])

R(i) == RatI(i, 1)

RatIsZero(q) == q.n = <<>>

RatSign(q) == IF q.n = <<>> THEN 0 ELSE IF q.neg THEN -1 ELSE 1

RatNeg(q) == IF q.n = <<>> THEN q ELSE [q EXCEPT !.neg = ~q.neg]

RatMul(p, q) ==
    IF p.n = <<>> \/ q.n = <<>> THEN RatZero
    ELSE RatNorm([neg |-> p.neg # q.neg, n |-> BMul(p.n, q.n), d |-> BMul(p.d, q.d)])

\* p / q; a division by zero is no number (every caller tests the divisor first)
RatDiv(p, q) ==
    IF q.n = <<>> THEN "ZeroDivisionError"
    ELSE IF p.n = <<>> THEN RatZero
    ELSE RatNorm([neg |-> p.neg # q.neg, n |-> BMul(p.n, q.d), d |-> BMul(p.d, q.n)])

\* a numerator brought to a common denominator
Cross(n, d, same) == IF same THEN n ELSE BMul(n, d)

\* pn/dd - qn/dd with the sign pneg, for magnitudes that compare as c
RatDiffOver(pneg, pn, qn, dd, c) ==
    IF c = 0 THEN RatZero
    ELSE IF c > 0 THEN RatNorm([neg |-> pneg, n |-> BSub(pn, qn), d |-> dd])
    ELSE RatNorm([neg |-> ~pneg, n |-> BSub(qn, pn), d |-> dd])

\* magnitudes pn/dd and qn/dd added or subtracted, as the signs say
RatAddOver(pneg, qneg, pn, qn, dd) ==
    IF pneg = qneg THEN RatNorm([neg |-> pneg, n |-> BAdd(pn, qn), d |-> dd])
    ELSE RatDiffOver(pneg, pn, qn, dd, BCmp(pn, qn))

RatAdd(p, q) ==
    IF p.n = <<>> THEN q
    ELSE IF q.n = <<>> THEN p
    ELSE RatAddOver(p.neg, q.neg, Cross(p.n, q.d, p.d = q.d), Cross(q.n, p.d, p.d = q.d),
                    Cross(p.d, q.d, p.d = q.d))

RatSub(p, q) ==
    IF q.n = <<>> THEN p ELSE RatAdd(p, [q EXCEPT !.neg = ~q.neg])

\* -1, 0, 1 as p < q, p = q, p > q
RatCmp(p, q) ==
    IF p.n = <<>> THEN -RatSign(q)
    ELSE IF q.n = <<>> THEN RatSign(p)
    ELSE IF p.neg # q.neg THEN (IF p.neg THEN -1 ELSE 1)
    ELSE IF p.neg THEN BCmp(Cross(q.n, p.d, p.d = q.d), Cross(p.n, q.d, p.d = q.d))
    ELSE BCmp(Cross(p.n, q.d, p.d = q.d), Cross(q.n, p.d, p.d = q.d))

RatLt(p, q) == RatCmp(p, q) < 0
RatLe(p, q) == RatCmp(p, q) <= 0
RatGt(p, q) == RatCmp(p, q) > 0
RatEq(p, q) == RatCmp(p, q) = 0

RatPowInt(p, k) ==
    IF p.n = <<>> THEN RatZero
    ELSE RatNorm([neg |-> p.neg /\ k % 2 = 1, n |-> BPow(p.n, k), d |-> BPow(p.d, k)])

\* Python's min(p, q): q when q < p, else p
RatMin(p, q) == IF RatLt(q, p) THEN q ELSE p

-----------------------------------------------------------------------------
(* x ** e for rationals x > 0 and e = p/q > 0 (float pow).  The result is  *)
(* the largest multiple y/PowScale of 1/PowScale whose q-th power does not *)
(* exceed x^p; the q-th power is taken in fixed point with FixLimbs limbs  *)
(* after the point, each product rounded down, as a float product is       *)
(* rounded.  The result is non-decreasing in x.                            *)

\* a result of pow has six digits after the point
PowScale == 100 * LimbBase

\* the power of four next to PowScale, where the search for a root begins
PowUnit == 1024 * 1024

\* limbs after the point of the fixed-point powers
FixLimbs == 2 + 2

RECURSIVE GCD(_, _)
GCD(a, b) == IF b = 0 THEN a ELSE GCD(b, a % b)

\* a natural of at most two limbs as a machine integer
BToInt(a) == IF a = <<>> THEN 0 ELSE IF Len(a) = 1 THEN a[1] ELSE a[1] + LimbBase * a[2]

\* a product m with the limbs after the point dropped
FixCut(m) == SubSeq(m, FixLimbs + 1, Len(m))

\* the fixed-point product, rounded down
FixMul(a, b) == FixCut(BMul(a, b))

FixOne == [i \in 1..FixLimbs |-> 0] \o <<1>>

\* sq, times a where the bit is 1
FixTimes(sq, a, bit) == IF sq = <<>> \/ bit = 0 THEN sq ELSE FixMul(sq, a)

\* acc squared, times a where the bit is 1
FixPowOf(a, bit, acc) == FixTimes(FixMul(acc, acc), a, bit)

\* a^k from acc = a^(k \div 2^i): the bits of k below bit i, from the high bit down
RECURSIVE FixPowI(_, _, _, _)
FixPowI(a, k, i, acc) ==
    IF Len(acc) >= 0 /\ i = 0 THEN acc
    ELSE FixPowI(a, k, i - 1, FixPowOf(a, (k \div 2^(i - 1)) % 2, acc))

\* the number of bits of k
BitLength(k) == Cardinality({i \in 0..30 : 2^i <= k})

FixPow(a, k) == FixPowI(a, k, BitLength(k), FixOne)

\* y/PowScale in fixed point
FixOfPow(y) == IF y = 0 THEN <<>> ELSE <<0, 0>> \o BMulLimb(BFromInt(y), 100)

\* yq * xdp <= rhs
PowLe(yq, xdp, rhs) == IF yq = <<>> THEN TRUE ELSE BCmp(BMul(yq, xdp), rhs) <= 0

\* (y/PowScale)^q <= x^p, for xdp = (x.d)^p and rhs = (x.n)^p in fixed point
PowSat(y, q, xdp, rhs) == PowLe(FixPow(FixOfPow(y), q), xdp, rhs)

\* the first step, a power of four from PowUnit up, that four times over is too large
RECURSIVE PowStep(_, _, _, _)
PowStep(step, q, xdp, rhs) ==
    IF PowSat(4 * step, q, xdp, rhs) THEN PowStep(4 * step, q, xdp, rhs) ELSE step

\* the largest of lo, lo + step, lo + 2 step, lo + 3 step that satisfies PowSat, as lo does
PowDigit(lo, step, q, xdp, rhs) ==
    IF PowSat(lo + 2 * step, q, xdp, rhs)
    THEN (IF PowSat(lo + 3 * step, q, xdp, rhs) THEN lo + 3 * step ELSE lo + 2 * step)
    ELSE (IF PowSat(lo + step, q, xdp, rhs) THEN lo + step ELSE lo)

\* the largest y that satisfies PowSat: lo does, lo + 4 step does not
RECURSIVE PowSearch(_, _, _, _, _)
PowSearch(lo, step, q, xdp, rhs) ==
    IF lo >= 0 /\ step = 0 THEN lo
    ELSE PowSearch(PowDigit(lo, step, q, xdp, rhs), step \div 4, q, xdp, rhs)

\* y/PowScale as a rational
PowRoot(y) == IF y = 0 THEN RatZero ELSE RatI(y, PowScale)

\* the root, found two bits at a time
PowBracket(q, xdp, rhs) == PowRoot(PowSearch(0, PowStep(PowUnit, q, xdp, rhs), q, xdp, rhs))

\* x ** (p/q) for p/q in lowest terms
PowLowest(x, p, q) == PowBracket(q, BPow(x.d, p), BMul(FixOne, BPow(x.n, p)))

RatPow(x, e) ==
    PowLowest(x, BToInt(e.n) \div GCD(BToInt(e.n), BToInt(e.d)),
              BToInt(e.d) \div GCD(BToInt(e.n), BToInt(e.d)))

-----------------------------------------------------------------------------
(* calculate_kz                                                            *)

\* y, after x has been worked out: the statements of a method run in order
Then(x, y) == CASE x = x -> y

\* Python's dict.get(key, default) on a record
Get(rec, key, default) == IF key \in DOMAIN rec THEN rec[key] ELSE default

exposure_params ==
    [C |-> [base |-> RatI(85, 100), zg |-> RatI(27432, 100), alpha |-> RatI(95, 10),
            breakpoints |-> << <<RatI(46, 10), RatI(85, 100)>>, <<RatI(61, 10), RatI(90, 100)>>,
                               <<RatI(91, 10), RatI(98, 100)>>, <<RatI(122, 10), RatI(104, 100)>>,
                               <<RatI(152, 10), RatI(109, 100)>> >>],
     B |-> [base |-> RatI(57, 100), zg |-> RatI(36576, 100), alpha |-> R(7),
            breakpoints |-> << <<RatI(91, 10), RatI(57, 100)>>, <<RatI(122, 10), RatI(62, 100)>>,
                               <<RatI(152, 10), RatI(66, 100)>> >>],
     D |-> [base |-> RatI(103, 100), zg |-> RatI(21336, 100), alpha |-> RatI(115, 10),
            breakpoints |-> << <<RatI(46, 10), RatI(103, 100)>>, <<RatI(61, 10), RatI(108, 100)>>,
                               <<RatI(91, 10), RatI(116, 100)>> >>]]

\* KzFormula dividing by the last threshold, not the first
KzFormulaLastThreshold(height_m, params) ==
    RatMul(params.base,
           RatPow(RatDiv(height_m, params.breakpoints[Len(params.breakpoints)][1]),
                  RatDiv(R(2), params.alpha)))

\* the formula for heights above the breakpoints
KzFormula(height_m, params) ==
    RatMul(params.base,
           RatPow(RatDiv(height_m, params.breakpoints[1][1]), RatDiv(R(2), params.alpha)))

\* KzScan with <= in place of <
RECURSIVE KzScanInclusive(_, _, _)
KzScanInclusive(height_m, params, i) ==
    IF i > Len(params.breakpoints) THEN KzFormula(height_m, params)
    ELSE IF RatLe(height_m, params.breakpoints[i][1]) THEN params.breakpoints[i][2]
    ELSE KzScanInclusive(height_m, params, i + 1)

\* the scan of the breakpoints from index i on
RECURSIVE KzScan(_, _, _)
KzScan(height_m, params, i) ==
    IF i > Len(params.breakpoints) THEN KzFormula(height_m, params)
    ELSE IF RatLt(height_m, params.breakpoints[i][1]) THEN params.breakpoints[i][2]
    ELSE KzScan(height_m, params, i + 1)

calculate_kz(height_m, exposure) ==
    KzScan(height_m, Get(exposure_params, exposure, exposure_params["C"]), 1)

-----------------------------------------------------------------------------
(* The configuration set by __init__, and math.pi                          *)

steel_density == 7850

gravity == RatI(981, 100)

\* math.pi, the double 3.141592653589793
Pi == [neg |-> FALSE, n |-> <<9793, 5358, 5926, 3141>>, d |-> <<0, 0, 0, 1000>>]

-----------------------------------------------------------------------------
(* calculate_dead_load                                                     *)

\* math.pi * radius ** 2 * height_m
CylinderVolume(radius, height_m) == RatMul(RatMul(Pi, RatPowInt(radius, 2)), height_m)

\* steel_volume_m3 = outer_volume - inner_volume
SteelVolume(d_avg_m, thickness_m, height_m) ==
    RatSub(CylinderVolume(RatDiv(d_avg_m, R(2)), height_m),
           CylinderVolume(RatSub(RatDiv(d_avg_m, R(2)), thickness_m), height_m))

\* the steel weight of one section, the body of the loop over sections
SectionWeight(section) ==
    RatMul(SteelVolume(RatDiv(RatDiv(RatAdd(section.diameter_top, section.diameter_bottom), R(2)), R(1000)),
                       RatDiv(section.thickness, R(1000)),
                       RatDiv(section.height, R(1000))),
           R(steel_density))

\* sum(item.get(key, 0) for item in items)
RECURSIVE SumGet(_, _)
SumGet(items, key) ==
    IF items = <<>> THEN R(0)
    ELSE RatAdd(Get(Head(items), key, R(0)), SumGet(Tail(items), key))

PlatformWeight(platform) ==
    RatAdd(RatAdd(RatAdd(Get(platform, "platform_weight_kg", R(0)),
                         SumGet(Get(platform, "antennas", <<>>), "weight_kg")),
                  SumGet(Get(platform, "rrus", <<>>), "weight_kg")),
           SumGet(Get(platform, "other_equipment", <<>>), "weight_kg"))

RECURSIVE PoleWeight(_)
PoleWeight(sections) ==
    IF sections = <<>> THEN R(0)
    ELSE RatAdd(SectionWeight(Head(sections)), PoleWeight(Tail(sections)))

RECURSIVE CrownWeight(_)
CrownWeight(crown_platforms) ==
    IF crown_platforms = <<>> THEN R(0)
    ELSE RatAdd(PlatformWeight(Head(crown_platforms)), CrownWeight(Tail(crown_platforms)))

\* (total_weight_kg, crown_weight_kg); None and [] are both <<>>
calculate_dead_load(sections, crown_platforms) ==
    <<PoleWeight(sections), CrownWeight(crown_platforms)>>

-----------------------------------------------------------------------------
(* calculate_wind_load                                                     *)

kzt == R(1)
kd == RatI(95, 100)
cf == RatI(5, 10)

\* a velocity pressure that grows with the speed, not with its square
VelocityPressureLinear(kz, wind_speed_ms) ==
    RatMul(RatMul(RatMul(RatMul(RatI(613, 1000), kz), kzt), kd), wind_speed_ms)

\* qz = 0.613 * kz * kzt * kd * (wind_speed_ms ** 2)
VelocityPressure(kz, wind_speed_ms) ==
    RatMul(RatMul(RatMul(RatMul(RatI(613, 1000), kz), kzt), kd), RatPowInt(wind_speed_ms, 2))

\* qz where kz has been worked out
PressureAt(kz, wind_speed_ms) == Then(kz, VelocityPressure(kz, wind_speed_ms))

\* total_wind_force += force; wind_moment += force * height; acc = (force, moment)
AddForce(acc, force, height) ==
    Then(force, <<RatAdd(acc[1], force), RatAdd(acc[2], RatMul(force, height))>>)

\* the body of the loop over the sections for a section of height h and mean
\* diameter d_avg, in m; acc = (force, moment, height_cumulative)
SectionForce(h, d_avg, wind_speed_ms, section_center_height, kz, acc) ==
    LET projected_area == RatMul(d_avg, h)
        qz == VelocityPressure(kz, wind_speed_ms)
        wind_force == RatMul(RatMul(qz, cf), projected_area)
    IN  Then(kz, Append(AddForce(acc, wind_force, section_center_height), RatAdd(acc[3], h)))

WindOnSectionAt(h, d_avg, wind_speed_ms, exposure, section_center_height, acc) ==
    SectionForce(h, d_avg, wind_speed_ms, section_center_height,
                 calculate_kz(section_center_height, exposure), acc)

WindOnSection(h, d_avg, wind_speed_ms, exposure, acc) ==
    WindOnSectionAt(h, d_avg, wind_speed_ms, exposure, RatAdd(acc[3], RatDiv(h, R(2))), acc)

\* the loop over the sections from index i on (a loop works out its accumulator
\* before it goes on: the test of its length is there for that)
RECURSIVE WindOnSections(_, _, _, _, _)
WindOnSections(sections, i, wind_speed_ms, exposure, acc) ==
    IF Len(acc) = 3 /\ i > Len(sections) THEN acc
    ELSE WindOnSections(sections, i + 1, wind_speed_ms, exposure,
             WindOnSection(RatDiv(sections[i].height, R(1000)),
                           RatDiv(RatDiv(RatAdd(sections[i].diameter_top, sections[i].diameter_bottom),
                                         R(2)), R(1000)),
                           wind_speed_ms, exposure, acc))

\* the loops over antennas and over rrus; acc = (force, moment)
RECURSIVE WindOnItems(_, _, _, _, _)
WindOnItems(items, default_cf, qz, platform_height, acc) ==
    IF Len(acc) = 2 /\ items = <<>> THEN acc
    ELSE WindOnItems(Tail(items), default_cf, qz, platform_height,
             AddForce(acc,
                      RatMul(RatMul(qz, Get(Head(items), "cf", default_cf)),
                             Get(Head(items), "wind_area_m2", R(0))),
                      platform_height))

\* the platform structure
WindOnStructure(platform, qz, platform_height, acc) ==
    IF RatGt(Get(platform, "platform_wind_area_m2", R(0)), R(0))
    THEN AddForce(acc,
                  RatMul(RatMul(qz, Get(platform, "cf", RatI(15, 10))),
                         Get(platform, "platform_wind_area_m2", R(0))),
                  platform_height)
    ELSE acc

\* the body of the loop with the other_equipment counted as the RRUs are
WindOnPlatformEquipment(platform, qz, acc) ==
    Then(qz,
         WindOnStructure(platform, qz, platform.height,
             WindOnItems(Get(platform, "other_equipment", <<>>), R(1), qz, platform.height,
                 WindOnItems(Get(platform, "rrus", <<>>), R(1), qz, platform.height,
                     WindOnItems(Get(platform, "antennas", <<>>), RatI(12, 10), qz, platform.height, acc)))))

\* the body of the loop over the crown platforms, once qz is known
WindOnPlatform(platform, qz, acc) ==
    Then(qz,
         WindOnStructure(platform, qz, platform.height,
             WindOnItems(Get(platform, "rrus", <<>>), R(1), qz, platform.height,
                 WindOnItems(Get(platform, "antennas", <<>>), RatI(12, 10), qz, platform.height, acc))))

\* the loop over the crown platforms
RECURSIVE WindOnPlatforms(_, _, _, _)
WindOnPlatforms(crown_platforms, wind_speed_ms, exposure, acc) ==
    IF Len(acc) = 2 /\ crown_platforms = <<>> THEN acc
    ELSE WindOnPlatforms(Tail(crown_platforms), wind_speed_ms, exposure,
             WindOnPlatform(Head(crown_platforms),
                            PressureAt(calculate_kz(Head(crown_platforms).height, exposure),
                                       wind_speed_ms),
                            acc))

\* (total_wind_force, wind_moment)
calculate_wind_load(sections, wind_speed_ms, exposure, crown_platforms) ==
    WindOnPlatforms(crown_platforms, wind_speed_ms, exposure,
        SubSeq(WindOnSections(sections, 1, wind_speed_ms, exposure, <<R(0), R(0), R(0)>>), 1, 2))

-----------------------------------------------------------------------------
(* calculate_moment_capacity, calculate_foundation_capacity                *)

\* what a method does: it returns a value or raises an error
Return(value) == [raised |-> "none", value |-> value]

Raise(error) == [raised |-> error, value |-> <<>>]

yield_strengths ==
    ("A36" :> R(248)) @@ ("A572-50" :> R(345)) @@ ("A992" :> R(345)) @@ ("S355" :> R(355))

\* (math.pi / 32) * (d_outer**4 - d_inner**4) / d_outer
SectionModulus(d_outer, d_inner) ==
    RatDiv(RatMul(RatDiv(Pi, R(32)), RatSub(RatPowInt(d_outer, 4), RatPowInt(d_inner, 4))), d_outer)

\* the returned pair, once the section modulus is known
MomentCapacity(section_modulus_m3, fy_mpa) ==
    <<RatMul(RatMul(section_modulus_m3, fy_mpa), R(1000000)), section_modulus_m3>>

\* (moment_capacity_nm, section_modulus_m3); the division by d_outer raises at 0
calculate_moment_capacity(diameter_mm, thickness_mm, steel_grade) ==
    LET fy_mpa == Get(yield_strengths, steel_grade, R(355))
        d_outer == RatDiv(diameter_mm, R(1000))
        thickness == RatDiv(thickness_mm, R(1000))
        d_inner == RatSub(d_outer, RatMul(R(2), thickness))
    IN  IF RatIsZero(diameter_mm) THEN Raise("ZeroDivisionError")
        ELSE Return(MomentCapacity(SectionModulus(d_outer, d_inner), fy_mpa))

\* bolt_area * bolt_grade * 1e6 * 0.75, for the bolt diameter in m
BoltTensileCapacity(bolt_diameter, bolt_grade) ==
    RatMul(RatMul(RatMul(RatDiv(RatMul(Pi, RatPowInt(bolt_diameter, 2)), R(4)), bolt_grade),
                  R(1000000)),
           RatI(75, 100))

\* the moment of half the bolts at half the bolt circle, without safety factor
FoundationMomentCapacity(foundation_params, bolt_tensile_capacity) ==
    LET bolt_circle_dia == RatDiv(foundation_params.bolt_circle_diameter, R(1000))
        lever_arm == RatDiv(bolt_circle_dia, R(2))
        bolts_in_tension == RatDiv(foundation_params.number_of_bolts, R(2))
        total_bolt_capacity == RatMul(bolts_in_tension, bolt_tensile_capacity)
    IN  RatMul(total_bolt_capacity, lever_arm)

\* the returned pair with the safety factor of 2.0 left out
UnfactoredPair(foundation_params, bolt_tensile_capacity) ==
    <<FoundationMomentCapacity(foundation_params, bolt_tensile_capacity), bolt_tensile_capacity>>

\* calculate_foundation_capacity without the safety factor of 2.0
FoundationCapacityUnfactored(foundation_params) ==
    UnfactoredPair(foundation_params,
                   BoltTensileCapacity(RatDiv(foundation_params.bolt_diameter, R(1000)),
                                       foundation_params.bolt_grade))

\* the returned pair, once the capacity of one bolt is known
FoundationPair(foundation_params, bolt_tensile_capacity) ==
    <<RatDiv(FoundationMomentCapacity(foundation_params, bolt_tensile_capacity), R(2)),
      bolt_tensile_capacity>>

\* (allowable_foundation_moment, bolt_tensile_capacity)
calculate_foundation_capacity(foundation_params) ==
    FoundationPair(foundation_params,
                   BoltTensileCapacity(RatDiv(foundation_params.bolt_diameter, R(1000)),
                                       foundation_params.bolt_grade))

-----------------------------------------------------------------------------
(* calculate_load_combinations                                             *)

\* the keys of the combinations dict in insertion order
ComboNames ==
    <<"LRFD_1.4D", "LRFD_1.2D+1.6W", "LRFD_1.2D+1.0W", "LRFD_0.9D+1.6W",
      "ASD_D", "ASD_D+W", "ASD_D+0.75W", "ASD_0.6D+0.6W">>

Combinations(wind_moment_nm, applied_moment_nm) ==
    ("LRFD_1.4D" :> R(0)) @@
    ("LRFD_1.2D+1.6W" :> RatAdd(applied_moment_nm, RatMul(RatI(16, 10), wind_moment_nm))) @@
    ("LRFD_1.2D+1.0W" :> RatAdd(applied_moment_nm, RatMul(R(1), wind_moment_nm))) @@
    ("LRFD_0.9D+1.6W" :> RatAdd(applied_moment_nm, RatMul(RatI(16, 10), wind_moment_nm))) @@
    ("ASD_D" :> R(0)) @@
    ("ASD_D+W" :> RatAdd(applied_moment_nm, wind_moment_nm)) @@
    ("ASD_D+0.75W" :> RatAdd(applied_moment_nm, RatMul(RatI(75, 100), wind_moment_nm))) @@
    ("ASD_0.6D+0.6W" :> RatAdd(applied_moment_nm, RatMul(RatI(6, 10), wind_moment_nm)))

\* a maximum scan that lets a later equal item replace the one kept
RECURSIVE MaxIndexLast(_, _, _)
MaxIndexLast(utilizations, i, best) ==
    IF i > Len(ComboNames) THEN best
    ELSE IF RatLe(utilizations[ComboNames[best]], utilizations[ComboNames[i]])
         THEN MaxIndexLast(utilizations, i + 1, i)
         ELSE MaxIndexLast(utilizations, i + 1, best)

\* Python's max over the items from index i on: the index of the first item
\* that no later item exceeds; best is the index kept so far
RECURSIVE MaxIndex(_, _, _)
MaxIndex(utilizations, i, best) ==
    IF i > Len(ComboNames) THEN best
    ELSE IF RatGt(utilizations[ComboNames[i]], utilizations[ComboNames[best]])
         THEN MaxIndex(utilizations, i + 1, i)
         ELSE MaxIndex(utilizations, i + 1, best)

\* max_utilization found by max, governing_combo the first name whatever its value
GovernedFirstName(combinations, utilizations) ==
    Return([combinations |-> combinations, utilizations |-> utilizations,
            governing_combo |-> ComboNames[1],
            max_utilization |-> utilizations[ComboNames[MaxIndex(utilizations, 2, 1)]]])

\* max_utilization and governing_combo, each found by its own max
Governed(combinations, utilizations) ==
    Return([combinations |-> combinations, utilizations |-> utilizations,
            governing_combo |-> ComboNames[MaxIndex(utilizations, 2, 1)],
            max_utilization |-> utilizations[ComboNames[MaxIndex(utilizations, 2, 1)]]])

\* utilizations = {name: moment / governing_moment}
Utilized(combinations, governing_moment) ==
    Governed(combinations,
             [name \in DOMAIN combinations |-> RatDiv(combinations[name], governing_moment)])

\* (combinations, utilizations, governing_combo, max_utilization); the division by
\* governing_moment raises at 0
calculate_load_combinations(wind_moment_nm, applied_moment_nm, governing_moment) ==
    IF RatIsZero(governing_moment) THEN Raise("ZeroDivisionError")
    ELSE Utilized(Combinations(wind_moment_nm, applied_moment_nm), governing_moment)

-----------------------------------------------------------------------------
(* analyze_monopole                                                        *)

\* sum(section['height'] for section in sections)
RECURSIVE SumHeights(_)
SumHeights(sections) ==
    IF sections = <<>> THEN R(0) ELSE RatAdd(Head(sections).height, SumHeights(Tail(sections)))

\* a dict or None in a condition: None and {} are both <<>>
Truthy(x) == DOMAIN x # {}

\* the choice between the two allowable moments with <= in place of <
SmallerInclusive(allowable_pole_moment, allowable_foundation_moment) ==
    <<RatMin(allowable_pole_moment, allowable_foundation_moment),
      IF RatLe(allowable_foundation_moment, allowable_pole_moment) THEN "FOUNDATION" ELSE "POLE">>

\* step 4 with the anchor group named as governing on a tie
GoverningInclusive(allowable_pole_moment, foundation_params) ==
    IF Truthy(foundation_params)
    THEN SmallerInclusive(allowable_pole_moment, calculate_foundation_capacity(foundation_params)[1])
    ELSE <<allowable_pole_moment, "POLE">>

\* governing_moment and governing_element of the two allowable moments
Smaller(allowable_pole_moment, allowable_foundation_moment) ==
    <<RatMin(allowable_pole_moment, allowable_foundation_moment),
      IF RatLt(allowable_foundation_moment, allowable_pole_moment) THEN "FOUNDATION" ELSE "POLE">>

\* 4. Foundation capacity: (governing_moment, governing_element)
Governing(allowable_pole_moment, foundation_params) ==
    IF Truthy(foundation_params)
    THEN Smaller(allowable_pole_moment, calculate_foundation_capacity(foundation_params)[1])
    ELSE <<allowable_pole_moment, "POLE">>

\* the status with each threshold counted into the upper class
StatusInclusive(max_utilization) ==
    IF RatLe(R(1), max_utilization) THEN "FAIL - Structure is overstressed!"
    ELSE IF RatLe(RatI(9, 10), max_utilization) THEN "CRITICAL - Very high utilization"
    ELSE IF RatLe(RatI(8, 10), max_utilization) THEN "WARNING - High utilization"
    ELSE IF RatLe(RatI(6, 10), max_utilization) THEN "GOOD - Adequately designed"
    ELSE "CONSERVATIVE - Significant reserve capacity"

\* Status determination
Status(max_utilization) ==
    IF RatGt(max_utilization, R(1)) THEN "FAIL - Structure is overstressed!"
    ELSE IF RatGt(max_utilization, RatI(9, 10)) THEN "CRITICAL - Very high utilization"
    ELSE IF RatGt(max_utilization, RatI(8, 10)) THEN "WARNING - High utilization"
    ELSE IF RatGt(max_utilization, RatI(6, 10)) THEN "GOOD - Adequately designed"
    ELSE "CONSERVATIVE - Significant reserve capacity"

\* analyze_monopole left by an exception: nothing is returned or printed
Abort(error) == [raised |-> error, value |-> <<>>, locals |-> <<>>]

\* a moment as a load at the top, 0 for a tower of no height
LoadAtTop(moment, total_height_m) ==
    IF RatGt(total_height_m, R(0)) THEN RatDiv(moment, RatMul(gravity, total_height_m)) ELSE R(0)

\* step 8, the status and the returned dict; lc is what calculate_load_combinations
\* did; locals are the local variables the summary prints and the dict leaves out
AnalyzeResult(weights, total_height_m, governing, wind, applied_moment, lc) ==
    IF lc.raised # "none" THEN Abort(lc.raised)
    ELSE [raised |-> "none",
          value |-> [pole_weight_kg |-> weights[1],
                     crown_weight_kg |-> weights[2],
                     total_dead_load_kg |-> RatAdd(weights[1], weights[2]),
                     wind_force_n |-> wind[1],
                     wind_moment_nm |-> wind[2],
                     governing_element |-> governing[2],
                     governing_combo |-> lc.value.governing_combo,
                     max_utilization |-> lc.value.max_utilization,
                     max_load_capacity_kg |-> LoadAtTop(governing[1], total_height_m),
                     remaining_capacity_kg |->
                         LoadAtTop(RatSub(governing[1], lc.value.combinations[lc.value.governing_combo]),
                                   total_height_m),
                     status |-> Status(lc.value.max_utilization),
                     all_combinations |-> lc.value.combinations,
                     all_utilizations |-> lc.value.utilizations],
          locals |-> [total_height_m |-> total_height_m,
                      governing_moment |-> governing[1],
                      applied_moment |-> applied_moment]]

\* step 7, once the wind load and the applied moment are known
AnalyzeCombinations(weights, total_height_m, governing, wind, applied_moment) ==
    Then(<<wind, applied_moment>>,
         AnalyzeResult(weights, total_height_m, governing, wind, applied_moment,
                       calculate_load_combinations(wind[2], applied_moment, governing[1])))

\* steps 5 and 6, once the capacity is known
AnalyzeLoads(a, weights, total_height_m, governing) ==
    Then(governing, AnalyzeCombinations(weights, total_height_m, governing,
        IF RatGt(a.wind_speed_ms, R(0))
        THEN calculate_wind_load(a.sections, a.wind_speed_ms, a.exposure, a.crown_platforms)
        ELSE <<R(0), R(0)>>,
        RatMul(RatMul(a.applied_load_kg, gravity), total_height_m)))

\* step 4, once calculate_moment_capacity has returned or raised
AnalyzeCapacity(a, weights, total_height_m, capacity) ==
    Then(<<weights, total_height_m>>,
         IF capacity.raised # "none" THEN Abort(capacity.raised)
         ELSE AnalyzeLoads(a, weights, total_height_m,
                           Governing(RatDiv(capacity.value[1], R(2)), a.foundation_params)))

\* the analysis with the capacity of the top section in place of sections[0]
AnalyzeTopSection(a) ==
    IF a.sections = <<>> THEN Abort("IndexError")
    ELSE AnalyzeCapacity(a, calculate_dead_load(a.sections, a.crown_platforms),
                         RatDiv(SumHeights(a.sections), R(1000)),
                         calculate_moment_capacity(a.sections[Len(a.sections)].diameter_bottom,
                                                   a.sections[Len(a.sections)].thickness, a.steel_grade))

\* a: the arguments sections, applied_load_kg, wind_speed_ms, exposure, steel_grade,
\* foundation_params, crown_platforms
analyze_monopole(a) ==
    IF a.sections = <<>> THEN Abort("IndexError")
    ELSE AnalyzeCapacity(a, calculate_dead_load(a.sections, a.crown_platforms),
                         RatDiv(SumHeights(a.sections), R(1000)),
                         calculate_moment_capacity(a.sections[1].diameter_bottom,
                                                   a.sections[1].thickness, a.steel_grade))

-----------------------------------------------------------------------------
(* Invocations and outcomes                                                *)

Pending(fn) == calls # <<>> /\ Head(calls).fn = fn

Finish(outcome) ==
    /\ results' = Append(results, outcome)
    /\ calls' = Tail(calls)

\* the call returned value
Returned(call, value) == Finish([call |-> call, raised |-> "none", value |-> value])

\* the call ended as r says: returned r.value or raised r.raised
Ended(call, r) == Finish([call |-> call, raised |-> r.raised, value |-> r.value])

\* the same for analyze_monopole, which also leaves its local variables
EndedAnalysis(call, r) ==
    Finish([call |-> call, raised |-> r.raised, value |-> r.value, locals |-> r.locals])

\* calculate_kz(height_m, exposure)
CalculateKz ==
    /\ Pending("calculate_kz")
    /\ Returned(Head(calls), calculate_kz(Head(calls).height_m, Head(calls).exposure))

\* calculate_dead_load(sections, crown_platforms)
CalculateDeadLoad ==
    /\ Pending("calculate_dead_load")
    /\ Returned(Head(calls), calculate_dead_load(Head(calls).sections, Head(calls).crown_platforms))

\* calculate_wind_load(sections, wind_speed_ms, exposure, crown_platforms)
CalculateWindLoad ==
    /\ Pending("calculate_wind_load")
    /\ Returned(Head(calls),
                calculate_wind_load(Head(calls).sections, Head(calls).wind_speed_ms,
                                    Head(calls).exposure, Head(calls).crown_platforms))

\* calculate_moment_capacity(diameter_mm, thickness_mm, steel_grade)
CalculateMomentCapacity ==
    /\ Pending("calculate_moment_capacity")
    /\ Ended(Head(calls),
             calculate_moment_capacity(Head(calls).diameter_mm, Head(calls).thickness_mm,
                                       Head(calls).steel_grade))

\* calculate_foundation_capacity(foundation_params)
CalculateFoundationCapacity ==
    /\ Pending("calculate_foundation_capacity")
    /\ Returned(Head(calls), calculate_foundation_capacity(Head(calls).foundation_params))

\* calculate_load_combinations(wind_moment_nm, applied_moment_nm, governing_moment)
CalculateLoadCombinations ==
    /\ Pending("calculate_load_combinations")
    /\ Ended(Head(calls),
             calculate_load_combinations(Head(calls).wind_moment_nm, Head(calls).applied_moment_nm,
                                         Head(calls).governing_moment))

\* analyze_monopole(sections, applied_load_kg, wind_speed_ms, exposure, steel_grade,
\*                  foundation_params, crown_platforms)
AnalyzeMonopole ==
    /\ Pending("analyze_monopole")
    /\ EndedAnalysis(Head(calls), analyze_monopole(Head(calls)))

-----------------------------------------------------------------------------
(* Inputs of the velocity pressure profile.  A caller sweeps one exposure  *)
(* bottom to top, as calculate_wind_load does over the section centres:    *)
(* the ground, every whole metre up to MaxHeightM, and every breakpoint    *)
(* threshold with the heights 10 mm below and above it.                    *)

MaxHeightM == 30

\* "A" is no key of exposure_params
Exposures == {"B", "C", "D", "A"}

ThresholdsMm == {4600, 6100, 9100, 12200, 15200}

KzHeightsMm ==
    {1000 * k : k \in 0..MaxHeightM} \cup UNION {{t - 10, t, t + 10} : t \in ThresholdsMm}

\* the i-th of a set of integers in ascending order
Ascending(S, i) == CHOOSE x \in S : Cardinality({y \in S : y < x}) = i - 1

KzCall(mm, e) == [fn |-> "calculate_kz", height_m |-> RatI(mm, 1000), exposure |-> e]

KzSweep(e) == [i \in 1..Cardinality(KzHeightsMm) |-> KzCall(Ascending(KzHeightsMm, i), e)]

\* one sweep per tabulated exposure; the untabulated one after a sweep of C
InitKz ==
    /\ calls \in {IF e \in DOMAIN exposure_params THEN KzSweep(e) ELSE KzSweep("C") \o KzSweep(e) :
                     e \in Exposures}
    /\ results = <<>>

NextKz == CalculateKz

SpecKz == InitKz /\ [][NextKz]_vars

-----------------------------------------------------------------------------
(* Inputs of the capacity analysis.  Dimensions are those of the 15 m      *)
(* tower the file configures, with the degenerate sections and anchor      *)
(* groups the methods accept without complaint.                            *)

MaxSections == 2
MaxBoltGroups == 6
MaxSpeedStep == 2

Section(height, diameter_top, diameter_bottom, thickness) ==
    [height |-> R(height), diameter_top |-> R(diameter_top),
     diameter_bottom |-> R(diameter_bottom), thickness |-> R(thickness)]

\* monopole_sections[0] of the configuration
MainSection == Section(15000, 250, 628, 5)
\* a lighter section to stack on it
UpperSection == Section(6000, 200, 400, 4)
\* a section of no height
FlatSection == Section(0, 250, 628, 5)
\* a wall thicker than the mean radius: no bore is left
SolidSection == Section(1000, 10, 10, 8)
\* a 100 mm tube whose allowable moment an anchor group can equal exactly
TieSection == Section(15000, 100, 100, 5)

SectionPool == {MainSection, UpperSection, FlatSection, SolidSection}

\* every list of at most n sections of the pool
RECURSIVE SectionLists(_)
SectionLists(n) ==
    IF n = 0 THEN {<<>>}
    ELSE SectionLists(n - 1) \cup
         {<<s>> \o l : s \in SectionPool, l \in {m \in SectionLists(n - 1) : Len(m) = n - 1}}

Item(weight_kg, area_tenths, cf_tenths) ==
    [weight_kg |-> R(weight_kg), wind_area_m2 |-> RatI(area_tenths, 10), cf |-> RatI(cf_tenths, 10)]

\* crown_platforms[0] of the configuration with fewer antennas and RRUs
Platform ==
    [height |-> R(14), platform_weight_kg |-> R(150), platform_wind_area_m2 |-> RatI(15, 10),
     cf |-> RatI(15, 10),
     antennas |-> <<Item(40, 15, 12), Item(40, 15, 12)>>,
     rrus |-> <<Item(30, 6, 10)>>,
     other_equipment |-> <<Item(25, 3, 10)>>]

\* a platform that leaves every optional key to its default
BarePlatform == [height |-> R(11), antennas |-> <<[wind_area_m2 |-> R(1)]>>, rrus |-> <<[weight_kg |-> R(30)]>>]

\* None, one platform, two platforms
Crowns == {<<>>, <<Platform>>, <<Platform, BarePlatform>>}

Foundation(number_of_bolts, bolt_diameter, bolt_grade, bolt_circle_diameter) ==
    [bolt_circle_diameter |-> R(bolt_circle_diameter), number_of_bolts |-> R(number_of_bolts),
     bolt_diameter |-> R(bolt_diameter), bolt_grade |-> R(bolt_grade)]

\* bolt counts: negative, none, every fourth up to 4 * MaxBoltGroups, and 23
BoltCounts == {-2, 0, 23} \cup {4 * k : k \in 1..MaxBoltGroups}

\* foundation_params of the configuration at each bolt count; a group on a circle
\* of no diameter; a group of bolts of no diameter; the group that ties TieSection
Foundations ==
    {Foundation(n, 22, 420, 750) : n \in BoltCounts}
        \cup {Foundation(16, 22, 420, 0), Foundation(16, 0, 420, 750), Foundation(10, 10, 181, 437)}

WindSpeeds == {10 * k : k \in 0..MaxSpeedStep}

\* the top load in percent of the load that uses up the governing moment: an
\* uplift, none, the status thresholds and points between
UtilizationPercents == {-10, 0, 50, 60, 70, 80, 85, 90, 95, 100, 110}

Args(sections, applied_load_kg, wind_speed_ms, exposure, steel_grade, foundation_params, crown_platforms) ==
    [sections |-> sections, applied_load_kg |-> applied_load_kg, wind_speed_ms |-> R(wind_speed_ms),
     exposure |-> exposure, steel_grade |-> steel_grade, foundation_params |-> foundation_params,
     crown_platforms |-> crown_platforms]

\* the governing moment for what calculate_moment_capacity returned
GoverningOf(capacity, foundation_params) ==
    Then(capacity, Governing(RatDiv(capacity.value[1], R(2)), foundation_params)[1])

\* the top load that is percent/100 of the governing moment
LoadOf(percent, governing, total_height_m) ==
    Then(governing, RatDiv(RatMul(RatI(percent, 100), governing), RatMul(gravity, total_height_m)))

\* the top load that, with no wind, uses percent/100 of the governing moment
LoadAt(percent, sections, steel_grade, foundation_params) ==
    LoadOf(percent,
           GoverningOf(calculate_moment_capacity(sections[1].diameter_bottom, sections[1].thickness,
                                                 steel_grade),
                       foundation_params),
           RatDiv(SumHeights(sections), R(1000)))

\* degenerate and stacked sections, no anchor group
GeometryArgs ==
    {Args(l, R(100), v, "C", "S355", <<>>, c) :
        l \in SectionLists(MaxSections), v \in {0, 20}, c \in {<<>>, <<Platform>>}}

\* one section on every anchor group
FoundationArgs ==
    {Args(<<MainSection>>, R(100), v, "C", "S355", f, <<>>) : v \in {0, 20}, f \in Foundations \cup {<<>>}}
        \cup {Args(<<TieSection>>, R(10), 0, "C", g, f, <<>>) : g \in {"A992", "A36"}, f \in Foundations}

\* wind on sections and platforms in each exposure
WindArgs ==
    {Args(l, R(100), v, e, "A572-50", <<>>, c) :
        l \in {<<MainSection>>, <<MainSection, UpperSection>>}, v \in WindSpeeds \ {0},
        e \in {"B", "C", "D"}, c \in Crowns}

DeadLoadCall(a) == [fn |-> "calculate_dead_load", sections |-> a.sections, crown_platforms |-> a.crown_platforms]

WindLoadCall(a) ==
    [fn |-> "calculate_wind_load", sections |-> a.sections, wind_speed_ms |-> a.wind_speed_ms,
     exposure |-> a.exposure, crown_platforms |-> a.crown_platforms]

MomentCapacityCall(a) ==
    [fn |-> "calculate_moment_capacity", diameter_mm |-> a.sections[1].diameter_bottom,
     thickness_mm |-> a.sections[1].thickness, steel_grade |-> a.steel_grade]

FoundationCapacityCall(a) == [fn |-> "calculate_foundation_capacity", foundation_params |-> a.foundation_params]

LoadCombinationsCall(wind_moment_nm, applied_moment_nm, governing_moment) ==
    [fn |-> "calculate_load_combinations", wind_moment_nm |-> R(wind_moment_nm),
     applied_moment_nm |-> R(applied_moment_nm), governing_moment |-> R(governing_moment)]

AnalyzeCall(a) == [fn |-> "analyze_monopole"] @@ a

\* no wind and the top load that brings max_utilization to percent/100
StatusArgs(percent, f) ==
    Args(<<MainSection>>, LoadAt(percent, <<MainSection>>, "S355", f), 0, "C", "S355", f, <<>>)

\* the same tower under a rising top load, through every status threshold
StatusSweep(f) ==
    [i \in 1..Cardinality(UtilizationPercents) |-> AnalyzeCall(StatusArgs(Ascending(UtilizationPercents, i), f))]

\* a caller works out the parts one by one, then runs the whole analysis
Script(a) ==
    <<DeadLoadCall(a)>>
        \o (IF a.sections = <<>> THEN <<>> ELSE <<MomentCapacityCall(a)>>)
        \o (IF Truthy(a.foundation_params) THEN <<FoundationCapacityCall(a)>> ELSE <<>>)
        \o <<WindLoadCall(a), AnalyzeCall(a)>>

Doubled(a) == [a EXCEPT !.wind_speed_ms = RatMul(R(2), a.wind_speed_ms)]

\* the same tower at a wind speed and at twice that speed
DoubledScript(a) == <<WindLoadCall(a), WindLoadCall(Doubled(a)), AnalyzeCall(a), AnalyzeCall(Doubled(a))>>

\* the same tower before and after its anchor group is reduced to four bolts
ReducedScript(a) ==
    <<AnalyzeCall(a), AnalyzeCall([a EXCEPT !.foundation_params.number_of_bolts = R(4)])>>

ReducedArgs ==
    {Args(<<MainSection>>, R(100), v, "C", "S355", Foundation(4 * k, 22, 420, 750), <<>>) :
        v \in {0, 20}, k \in 2..MaxBoltGroups}

Moments == {-1000, 0, 600, 1000}

CombinationScripts ==
    {<<LoadCombinationsCall(w, m, g)>> : w \in Moments, m \in Moments, g \in {-2000, 0, 1000, 2000}}

\* every list of MaxSections different sections of the pool
FullLists ==
    {l \in SectionLists(MaxSections) :
        Len(l) = MaxSections /\ \A j \in 1..Len(l) : \A k \in 1..Len(l) : l[j] = l[k] => j = k}

\* the lists that hold the sections of l in another order
Reorderings(l) == {p \in FullLists : p # l /\ {p[k] : k \in 1..Len(p)} = {l[k] : k \in 1..Len(l)}}

ReorderedArgs(l) == Args(l, R(100), 0, "C", "S355", <<>>, <<>>)

\* the same sections in two orders: the weights, the capacities of the two bottom
\* sections, the two analyses
ReorderedScript(l, p) ==
    <<DeadLoadCall(ReorderedArgs(l)), DeadLoadCall(ReorderedArgs(p)),
      MomentCapacityCall(ReorderedArgs(l)), MomentCapacityCall(ReorderedArgs(p)),
      AnalyzeCall(ReorderedArgs(l)), AnalyzeCall(ReorderedArgs(p))>>

\* other_equipment lists: none, one item, another of large wind area and cf, both,
\* an item of no weight_kg
EquipmentLists ==
    {<<>>, <<Item(25, 3, 10)>>, <<Item(10, 20, 20)>>, <<Item(25, 3, 10), Item(10, 20, 20)>>,
     <<[wind_area_m2 |-> R(5), cf |-> R(2)]>>}

\* the configured tower with the other_equipment of its platform set to equipment
EquippedArgs(equipment) ==
    Args(<<MainSection>>, R(100), 20, "C", "S355", <<>>, <<[Platform EXCEPT !.other_equipment = equipment]>>)

\* the same tower before and after the other_equipment of its platform changes
EquipmentScript(before, after) ==
    <<DeadLoadCall(EquippedArgs(before)), DeadLoadCall(EquippedArgs(after)),
      WindLoadCall(EquippedArgs(before)), WindLoadCall(EquippedArgs(after)),
      AnalyzeCall(EquippedArgs(before)), AnalyzeCall(EquippedArgs(after))>>

Init ==
    /\ calls \in {Script(a) : a \in GeometryArgs \cup FoundationArgs}
                    \cup {StatusSweep(f) : f \in {<<>>, Foundation(16, 22, 420, 750)}}
                    \cup {ReducedScript(a) : a \in ReducedArgs}
                    \cup {DoubledScript(a) : a \in WindArgs}
                    \cup CombinationScripts
                    \cup UNION {{ReorderedScript(l, p) : p \in Reorderings(l)} : l \in FullLists}
                    \cup {EquipmentScript(b, a) : b \in EquipmentLists, a \in EquipmentLists}
    /\ results = <<>>

Next ==
    \/ CalculateDeadLoad
    \/ CalculateWindLoad
    \/ CalculateMomentCapacity
    \/ CalculateFoundationCapacity
    \/ CalculateLoadCombinations
    \/ AnalyzeMonopole

Spec == Init /\ [][Next]_vars

-----------------------------------------------------------------------------
(* Properties of calculate_kz, over the outcomes of SpecKz                 *)

KzResults == {i \in 1..Len(results) : results[i].call.fn = "calculate_kz"}

\* C8: for exposure C, Kz(h) is non-decreasing in h: of any two heights evaluated,
\* the higher one has no smaller Kz, across every breakpoint threshold and across
\* the change at 15.2 m from the table to the power law.
C8_KzNonDecreasingC ==
    \A i \in KzResults : \A j \in KzResults :
        (/\ results[i].call.exposure = "C"
         /\ results[j].call.exposure = "C"
         /\ RatLe(results[i].call.height_m, results[j].call.height_m))
        => RatLe(results[i].value, results[j].value)

\* exposure C has been evaluated just below 15.2 m (table) and at 15.2 m (power law)
C8_Witness ==
    \E i \in KzResults : \E j \in KzResults :
        /\ results[i].call.exposure = "C"
        /\ results[j].call.exposure = "C"
        /\ results[i].call.height_m = RatI(15190, 1000)
        /\ results[j].call.height_m = RatI(15200, 1000)
        /\ results[i].value = RatI(109, 100)
        /\ RatGt(results[j].value, RatI(109, 100))

\* the table an exposure is looked up in: its own, or that of C when it has none
TableOf(exposure) ==
    IF exposure \in DOMAIN exposure_params THEN exposure_params[exposure] ELSE exposure_params["C"]

\* the breakpoints whose threshold strictly exceeds the height
Exceeding(height_m, table) ==
    {k \in 1..Len(table.breakpoints) : RatLt(height_m, table.breakpoints[k][1])}

\* C9: calculate_kz returns the Kz of the first breakpoint whose threshold strictly
\* exceeds the height (so a height equal to a threshold gets the next breakpoint's
\* Kz, and exposure C at 4.6 m gets 0.90); it leaves the table only at or above
\* the last threshold; an unknown exposure is looked up in the table of C.
C9_KzFirstExceedingBreakpoint ==
    \A i \in KzResults :
        LET r == results[i]
            table == TableOf(r.call.exposure)
            above == Exceeding(r.call.height_m, table)
            first == CHOOSE k \in above : \A m \in above : k <= m
            last == table.breakpoints[Len(table.breakpoints)]
        IN  /\ r.raised = "none"
            /\ above # {} => r.value = table.breakpoints[first][2]
            /\ r.value \notin {table.breakpoints[k][2] : k \in 1..Len(table.breakpoints)}
                   => RatLe(last[1], r.call.height_m)
            /\ (r.call.exposure \in {"C", "A"} /\ r.call.height_m = RatI(4600, 1000))
                   => r.value = RatI(90, 100)

\* a height equal to a threshold has been evaluated, for exposure C at 4.6 m and
\* for an exposure that is no key of the table, and a height above the last threshold
C9_Witness ==
    /\ \E i \in KzResults :
        /\ results[i].call.exposure = "C"
        /\ results[i].call.height_m = RatI(4600, 1000)
        /\ results[i].value = RatI(90, 100)
    /\ \E i \in KzResults :
        /\ results[i].call.exposure = "A"
        /\ results[i].call.height_m = RatI(4600, 1000)
        /\ results[i].value = RatI(90, 100)
    /\ \E j \in KzResults :
        /\ results[j].call.exposure = "C"
        /\ RatGt(results[j].call.height_m, RatI(15200, 1000))

-----------------------------------------------------------------------------
(* Properties of the capacity analysis, over the outcomes of Spec          *)

ResultsOf(fn) == {i \in 1..Len(results) : results[i].call.fn = fn}

AnalyzeResults == ResultsOf("analyze_monopole")

AnalyzeReturns == {i \in AnalyzeResults : results[i].raised = "none"}

\* the configured tower (628 mm base, 5 mm wall, S355) on n bolts of 22 mm, grade
\* 420 MPa, on a 750 mm circle
OnBolts(i, n) ==
    /\ i \in AnalyzeResults
    /\ results[i].call.sections = <<MainSection>>
    /\ results[i].call.steel_grade = "S355"
    /\ results[i].call.foundation_params = Foundation(n, 22, 420, 750)

\* the analyses i and j differ in the bolt count alone
SameButBolts(i, j) ==
    [results[i].call EXCEPT !.foundation_params.number_of_bolts = R(0)]
        = [results[j].call EXCEPT !.foundation_params.number_of_bolts = R(0)]

Element(i) == IF results[i].raised = "none" THEN results[i].value.governing_element ELSE results[i].raised

\* C1 as stated: the configured tower on 16 bolts has governing_element POLE, and
\* FOUNDATION once number_of_bolts is reduced to 4, all other inputs unchanged.
C1_PoleOnSixteenBolts ==
    \A i \in AnalyzeResults : \A j \in AnalyzeResults :
        (OnBolts(i, 16) /\ OnBolts(j, 4) /\ SameButBolts(i, j))
            => (Element(i) = "POLE" /\ Element(j) = "FOUNDATION")

\* C1 amended: the configured tower has governing_element FOUNDATION on 16 bolts as
\* on 4, so reducing 16 bolts to 4 flips nothing; it is POLE on 24 bolts, FOUNDATION
\* still on 23, and reducing 24 bolts to 4 flips POLE to FOUNDATION.
C1_FoundationOnSixteenBolts ==
    \A i \in AnalyzeResults :
        /\ (OnBolts(i, 4) \/ OnBolts(i, 16) \/ OnBolts(i, 23)) => Element(i) = "FOUNDATION"
        /\ OnBolts(i, 24) => Element(i) = "POLE"

\* the configured tower has been analysed on 16 bolts and then on 4
C1_Witness ==
    \E i \in AnalyzeResults : \E j \in AnalyzeResults :
        /\ OnBolts(i, 16) /\ OnBolts(j, 4) /\ SameButBolts(i, j)
        /\ Element(i) = "FOUNDATION" /\ Element(j) = "FOUNDATION"

\* average diameter / 2 minus thickness, in mm
InnerRadius(section) ==
    RatSub(RatDiv(RatDiv(RatAdd(section.diameter_top, section.diameter_bottom), R(2)), R(2)),
           section.thickness)

NoBore(sections) == \E k \in 1..Len(sections) : RatLe(InnerRadius(sections[k]), R(0))

\* C2: calculate_dead_load fails with InvalidSectionGeometry, and returns no weight,
\* for every sections list with a section whose inner radius is <= 0.
C2_InvalidSectionGeometryRaised ==
    \A i \in ResultsOf("calculate_dead_load") :
        NoBore(results[i].call.sections)
            => (results[i].raised = "InvalidSectionGeometry" /\ results[i].value = <<>>)

InvalidFoundation(foundation_params) ==
    /\ Truthy(foundation_params)
    /\ \/ RatLe(foundation_params.number_of_bolts, R(0))
       \/ RatLe(foundation_params.bolt_diameter, R(0))
       \/ RatLe(foundation_params.bolt_circle_diameter, R(0))

\* C3: calculate_foundation_capacity, and so analyze_monopole when foundation_params
\* is given, fails with InvalidFoundationParams and produces no result whenever
\* number_of_bolts, bolt_diameter or bolt_circle_diameter is <= 0.
C3_InvalidFoundationParamsRaised ==
    \A i \in ResultsOf("calculate_foundation_capacity") \cup AnalyzeResults :
        InvalidFoundation(results[i].call.foundation_params)
            => (results[i].raised = "InvalidFoundationParams" /\ results[i].value = <<>>)

\* C4: every analyze_monopole call whose section heights sum to 0 returns, with
\* remaining_capacity_kg = 0 and max_load_capacity_kg = 0.
C4_ZeroHeightReturnsZero ==
    \A i \in AnalyzeResults :
        RatIsZero(SumHeights(results[i].call.sections))
            => /\ results[i].raised = "none"
               /\ RatIsZero(results[i].value.remaining_capacity_kg)
               /\ RatIsZero(results[i].value.max_load_capacity_kg)

ComboIndex(name) == CHOOSE k \in 1..Len(ComboNames) : ComboNames[k] = name

\* governing_combo attains max_utilization, no utilization exceeds it, and every
\* combination before governing_combo in the table order is strictly below it
FirstMaximum(utilizations, governing_combo, max_utilization) ==
    /\ DOMAIN utilizations = {ComboNames[k] : k \in 1..Len(ComboNames)}
    /\ utilizations[governing_combo] = max_utilization
    /\ \A k \in 1..Len(ComboNames) : RatLe(utilizations[ComboNames[k]], max_utilization)
    /\ \A k \in 1..(ComboIndex(governing_combo) - 1) : RatLt(utilizations[ComboNames[k]], max_utilization)
    /\ RatEq(utilizations["LRFD_1.2D+1.6W"], utilizations["LRFD_0.9D+1.6W"])
    /\ governing_combo # "LRFD_0.9D+1.6W"

\* C5: governing_combo is a combination whose utilization is max_utilization, the
\* maximum of the eight; of several that attain it, the first in the table order;
\* LRFD_1.2D+1.6W and LRFD_0.9D+1.6W have the same utilization, so the governing
\* combination is never LRFD_0.9D+1.6W.  The same holds of what analyze_monopole
\* reports.
C5_GoverningComboFirstMaximum ==
    /\ \A i \in ResultsOf("calculate_load_combinations") :
        results[i].raised = "none"
            => FirstMaximum(results[i].value.utilizations, results[i].value.governing_combo,
                            results[i].value.max_utilization)
    /\ \A i \in AnalyzeReturns :
        FirstMaximum(results[i].value.all_utilizations, results[i].value.governing_combo,
                     results[i].value.max_utilization)

\* the two 1.6W combinations tie at a maximum above that of LRFD_1.4D, and the
\* earlier of them governs
C5_Witness ==
    \E i \in ResultsOf("calculate_load_combinations") :
        /\ results[i].raised = "none"
        /\ results[i].value.governing_combo = "LRFD_1.2D+1.6W"
        /\ results[i].value.utilizations["LRFD_0.9D+1.6W"] = results[i].value.max_utilization
        /\ RatGt(results[i].value.max_utilization, results[i].value.utilizations["LRFD_1.4D"])

\* result j is the moment capacity of the bottom section of analysis i
PoleOf(i, j) ==
    /\ j \in ResultsOf("calculate_moment_capacity")
    /\ results[j].raised = "none"
    /\ results[i].call.sections # <<>>
    /\ results[j].call.diameter_mm = results[i].call.sections[1].diameter_bottom
    /\ results[j].call.thickness_mm = results[i].call.sections[1].thickness
    /\ results[j].call.steel_grade = results[i].call.steel_grade

\* result k is the capacity of the anchor group of analysis i
FoundationOf(i, k) ==
    /\ k \in ResultsOf("calculate_foundation_capacity")
    /\ results[k].call.foundation_params = results[i].call.foundation_params

AllowablePole(j) == RatDiv(results[j].value[1], R(2))

\* C6: with foundation_params given, governing_moment is the smaller of the allowable
\* pole moment and the allowable foundation moment, and governing_element is
\* FOUNDATION exactly when the foundation allowable is strictly the smaller (a tie
\* gives POLE); without foundation_params, governing_moment is the allowable pole
\* moment and governing_element is POLE.
C6_GoverningIsMinimum ==
    \A i \in AnalyzeReturns : \A j \in 1..Len(results) :
        PoleOf(i, j) =>
            /\ ~Truthy(results[i].call.foundation_params)
                   => /\ RatEq(results[i].locals.governing_moment, AllowablePole(j))
                      /\ results[i].value.governing_element = "POLE"
            /\ \A k \in 1..Len(results) :
                   FoundationOf(i, k) =>
                       /\ RatLe(results[i].locals.governing_moment, AllowablePole(j))
                       /\ RatLe(results[i].locals.governing_moment, results[k].value[1])
                       /\ \/ RatEq(results[i].locals.governing_moment, AllowablePole(j))
                          \/ RatEq(results[i].locals.governing_moment, results[k].value[1])
                       /\ results[i].value.governing_element \in {"FOUNDATION", "POLE"}
                       /\ results[i].value.governing_element = "FOUNDATION"
                              <=> RatLt(results[k].value[1], AllowablePole(j))

\* an analysis in which the anchor group and the pole allow exactly the same moment
C6_Witness ==
    \E i \in AnalyzeReturns : \E j \in 1..Len(results) : \E k \in 1..Len(results) :
        /\ PoleOf(i, j) /\ FoundationOf(i, k)
        /\ RatEq(results[k].value[1], AllowablePole(j))
        /\ RatGt(AllowablePole(j), R(0))
        /\ results[i].value.governing_element = "POLE"

StatusLabels ==
    [FAIL |-> "FAIL - Structure is overstressed!",
     CRITICAL |-> "CRITICAL - Very high utilization",
     WARNING |-> "WARNING - High utilization",
     GOOD |-> "GOOD - Adequately designed",
     CONSERVATIVE |-> "CONSERVATIVE - Significant reserve capacity"]

\* the status of analysis i is label exactly when max_utilization is in (above, upto]
StatusWithin(i, label, above, upto) ==
    results[i].value.status = StatusLabels[label]
        <=> (RatGt(results[i].value.max_utilization, above) /\ RatLe(results[i].value.max_utilization, upto))

\* C7: status is FAIL when max_utilization > 1.0, else CRITICAL when > 0.9, else
\* WARNING when > 0.8, else GOOD when > 0.6, else CONSERVATIVE; a utilization equal
\* to 1.0, 0.9, 0.8 or 0.6 falls in the lower class; every result carries exactly
\* one of the five labels.
C7_StatusByStrictThresholds ==
    \A i \in AnalyzeReturns :
        /\ results[i].value.status \in {StatusLabels[l] : l \in DOMAIN StatusLabels}
        /\ results[i].value.status = StatusLabels.FAIL <=> RatGt(results[i].value.max_utilization, R(1))
        /\ StatusWithin(i, "CRITICAL", RatI(9, 10), R(1))
        /\ StatusWithin(i, "WARNING", RatI(8, 10), RatI(9, 10))
        /\ StatusWithin(i, "GOOD", RatI(6, 10), RatI(8, 10))
        /\ results[i].value.status = StatusLabels.CONSERVATIVE
               <=> RatLe(results[i].value.max_utilization, RatI(6, 10))

\* an analysis whose max_utilization is exactly u, with the status label
AtThreshold(u, label) ==
    \E i \in AnalyzeReturns :
        /\ RatEq(results[i].value.max_utilization, u)
        /\ results[i].value.status = StatusLabels[label]

\* one tower has been analysed at each of the four thresholds and above the highest
C7_Witness ==
    /\ AtThreshold(R(1), "CRITICAL")
    /\ AtThreshold(RatI(9, 10), "WARNING")
    /\ AtThreshold(RatI(8, 10), "GOOD")
    /\ AtThreshold(RatI(6, 10), "CONSERVATIVE")
    /\ AtThreshold(RatI(11, 10), "FAIL")

\* call d is call c at twice the wind speed, which is positive
DoubledSpeed(c, d) ==
    /\ RatGt(c.wind_speed_ms, R(0))
    /\ RatEq(d.wind_speed_ms, RatMul(R(2), c.wind_speed_ms))
    /\ [c EXCEPT !.wind_speed_ms = R(0)] = [d EXCEPT !.wind_speed_ms = R(0)]

Quadrupled(x, y) == RatEq(y, RatMul(R(4), x))

\* C10: with sections, exposure and crown platforms fixed, doubling wind_speed_ms
\* from any V > 0 multiplies by exactly 4 the force and the moment calculate_wind_load
\* returns, and wind_force_n and wind_moment_nm of analyze_monopole.
C10_DoubledSpeedQuadruplesWind ==
    /\ \A i \in ResultsOf("calculate_wind_load") : \A j \in ResultsOf("calculate_wind_load") :
        DoubledSpeed(results[i].call, results[j].call)
            => /\ Quadrupled(results[i].value[1], results[j].value[1])
               /\ Quadrupled(results[i].value[2], results[j].value[2])
    /\ \A i \in AnalyzeReturns : \A j \in AnalyzeReturns :
        DoubledSpeed(results[i].call, results[j].call)
            => /\ Quadrupled(results[i].value.wind_force_n, results[j].value.wind_force_n)
               /\ Quadrupled(results[i].value.wind_moment_nm, results[j].value.wind_moment_nm)

\* a tower with platforms has been loaded and analysed at a speed and at twice it
C10_Witness ==
    /\ \E i \in ResultsOf("calculate_wind_load") : \E j \in ResultsOf("calculate_wind_load") :
        /\ DoubledSpeed(results[i].call, results[j].call)
        /\ results[i].call.crown_platforms # <<>>
        /\ RatGt(results[i].value[2], R(0))
    /\ \E i \in AnalyzeReturns : \E j \in AnalyzeReturns :
        /\ DoubledSpeed(results[i].call, results[j].call)
        /\ RatGt(results[i].value.wind_moment_nm, R(0))


-----------------------------------------------------------------------------
(* Properties of the order of the sections                                 *)

\* the sections of the calls i and j are the same sections in another order
Permuted(i, j) ==
    /\ Len(results[i].call.sections) = Len(results[j].call.sections)
    /\ \A x \in {results[i].call.sections[k] : k \in 1..Len(results[i].call.sections)} :
           Cardinality({k \in 1..Len(results[i].call.sections) : results[i].call.sections[k] = x})
               = Cardinality({k \in 1..Len(results[j].call.sections) : results[j].call.sections[k] = x})

\* the analyses i and j differ in the order of their sections alone, and in it
Reordered(i, j) ==
    /\ i \in AnalyzeReturns /\ j \in AnalyzeReturns
    /\ results[i].call.sections # results[j].call.sections
    /\ Permuted(i, j)
    /\ [results[i].call EXCEPT !.sections = <<>>] = [results[j].call EXCEPT !.sections = <<>>]
    /\ ~Truthy(results[i].call.foundation_params)

\* the pole weight is the same for every order of the sections, in
\* calculate_dead_load and in analyze_monopole
SameWeightReordered ==
    /\ \A i \in ResultsOf("calculate_dead_load") : \A j \in ResultsOf("calculate_dead_load") :
           Permuted(i, j) => RatEq(results[i].value[1], results[j].value[1])
    /\ \A i \in AnalyzeReturns : \A j \in AnalyzeReturns :
           Permuted(i, j) => RatEq(results[i].value.pole_weight_kg, results[j].value.pole_weight_kg)

\* C11 as stated: the pole weight is the same for every order of the sections, and
\* two orders of the same sections with different first elements give the same
\* pole_weight_kg but different allowable pole moments.
C11_DifferentFirstDifferentMoment ==
    /\ SameWeightReordered
    /\ \A i \in AnalyzeResults : \A j \in AnalyzeResults :
           (Reordered(i, j) /\ results[i].call.sections[1] # results[j].call.sections[1])
               => ~RatEq(results[i].locals.governing_moment, results[j].locals.governing_moment)

\* C11 amended: the pole weight is the same for every order of the sections; the
\* allowable pole moment of an analysis is half the moment capacity of the bottom
\* diameter and thickness of sections[0]; so two orders of the same sections give
\* different allowable pole moments exactly when those capacities differ, and the
\* same one when the first elements differ in height or top diameter only.
C11_MomentOfFirstSection ==
    /\ SameWeightReordered
    /\ \A i \in AnalyzeResults : \A j \in AnalyzeResults :
           Reordered(i, j) =>
               /\ \A k \in 1..Len(results) :
                      PoleOf(i, k) => RatEq(results[i].locals.governing_moment, AllowablePole(k))
               /\ \A k \in 1..Len(results) : \A m \in 1..Len(results) :
                      (PoleOf(i, k) /\ PoleOf(j, m)) =>
                          (RatEq(results[i].locals.governing_moment, results[j].locals.governing_moment)
                               <=> RatEq(results[k].value[1], results[m].value[1]))
               /\ (/\ results[i].call.sections[1].diameter_bottom = results[j].call.sections[1].diameter_bottom
                   /\ results[i].call.sections[1].thickness = results[j].call.sections[1].thickness)
                      => RatEq(results[i].locals.governing_moment, results[j].locals.governing_moment)

\* two orders of the same sections have been analysed whose first elements differ
\* in bottom diameter and thickness: same weight, other allowable moment
C11_Witness ==
    /\ \E i \in AnalyzeResults : \E j \in AnalyzeResults :
           /\ Reordered(i, j)
           /\ results[i].call.sections = <<MainSection, UpperSection>>
           /\ \E k \in 1..Len(results) : \E m \in 1..Len(results) : PoleOf(i, k) /\ PoleOf(j, m)
           /\ RatEq(results[i].value.pole_weight_kg, results[j].value.pole_weight_kg)
           /\ RatGt(results[i].locals.governing_moment, results[j].locals.governing_moment)

-----------------------------------------------------------------------------
(* Properties of the other equipment of a crown platform                   *)

\* the platforms without their other_equipment
Unequipped(crown_platforms) ==
    [k \in 1..Len(crown_platforms) |->
        [key \in DOMAIN crown_platforms[k] \ {"other_equipment"} |-> crown_platforms[k][key]]]

\* the calls c and d differ in the other_equipment of their platforms alone, and in it
OtherEquipment(c, d) ==
    /\ c.fn = d.fn
    /\ c.crown_platforms # d.crown_platforms
    /\ [c EXCEPT !.crown_platforms = Unequipped(c.crown_platforms)]
           = [d EXCEPT !.crown_platforms = Unequipped(d.crown_platforms)]

\* the weight_kg of the items of a list, 0 where an item has none
RECURSIVE ItemsWeight(_)
ItemsWeight(items) ==
    IF items = <<>> THEN R(0)
    ELSE RatAdd(IF "weight_kg" \in DOMAIN Head(items) THEN Head(items).weight_kg ELSE R(0),
                ItemsWeight(Tail(items)))

\* the weight_kg of all other_equipment of the platforms
RECURSIVE EquipmentWeight(_)
EquipmentWeight(crown_platforms) ==
    IF crown_platforms = <<>> THEN R(0)
    ELSE RatAdd(IF "other_equipment" \in DOMAIN Head(crown_platforms)
                THEN ItemsWeight(Head(crown_platforms).other_equipment) ELSE R(0),
                EquipmentWeight(Tail(crown_platforms)))

\* C12: adding, removing or changing items of a platform's other_equipment changes
\* crown_weight_kg by the items' weight_kg and leaves the wind force and the wind
\* moment of calculate_wind_load unchanged, whatever the items' wind_area_m2 and cf.
C12_OtherEquipmentWeighsOnly ==
    /\ \A i \in ResultsOf("calculate_dead_load") : \A j \in ResultsOf("calculate_dead_load") :
           OtherEquipment(results[i].call, results[j].call) =>
               /\ RatEq(RatSub(results[j].value[2], results[i].value[2]),
                        RatSub(EquipmentWeight(results[j].call.crown_platforms),
                               EquipmentWeight(results[i].call.crown_platforms)))
               /\ RatEq(results[j].value[1], results[i].value[1])
    /\ \A i \in ResultsOf("calculate_wind_load") : \A j \in ResultsOf("calculate_wind_load") :
           OtherEquipment(results[i].call, results[j].call) =>
               /\ RatEq(results[i].value[1], results[j].value[1])
               /\ RatEq(results[i].value[2], results[j].value[2])
    /\ \A i \in AnalyzeReturns : \A j \in AnalyzeReturns :
           OtherEquipment(results[i].call, results[j].call) =>
               /\ RatEq(RatSub(results[j].value.crown_weight_kg, results[i].value.crown_weight_kg),
                        RatSub(EquipmentWeight(results[j].call.crown_platforms),
                               EquipmentWeight(results[i].call.crown_platforms)))
               /\ RatEq(results[i].value.wind_force_n, results[j].value.wind_force_n)
               /\ RatEq(results[i].value.wind_moment_nm, results[j].value.wind_moment_nm)

\* an item of 10 kg, 2 m2 and cf 2 has been added to the other_equipment of the
\* platform: the crown weighs 10 kg more under the same, positive wind load
C12_Witness ==
    \E i \in ResultsOf("calculate_wind_load") : \E j \in ResultsOf("calculate_wind_load") :
        \E k \in ResultsOf("calculate_dead_load") : \E m \in ResultsOf("calculate_dead_load") :
            /\ OtherEquipment(results[i].call, results[j].call)
            /\ OtherEquipment(results[k].call, results[m].call)
            /\ results[i].call.crown_platforms[1].other_equipment = <<Item(25, 3, 10)>>
            /\ results[j].call.crown_platforms[1].other_equipment = <<Item(25, 3, 10), Item(10, 20, 20)>>
            /\ results[k].call.crown_platforms = results[i].call.crown_platforms
            /\ results[m].call.crown_platforms = results[j].call.crown_platforms
            /\ RatEq(RatSub(results[m].value[2], results[k].value[2]), R(10))
            /\ RatGt(results[i].value[1], R(0))
            /\ RatEq(results[i].value[1], results[j].value[1])

-----------------------------------------------------------------------------
(* Properties of the remaining capacity                                    *)

\* the analyses that returned for a tower of positive height and governing moment
Standing ==
    {i \in AnalyzeReturns : /\ RatGt(results[i].locals.total_height_m, R(0))
                            /\ RatGt(results[i].locals.governing_moment, R(0))}

\* C13: for every analyze_monopole result with total_height_m > 0 and
\* governing_moment > 0, remaining_capacity_kg is negative exactly when
\* max_utilization > 1.0 (status FAIL), is 0 exactly when max_utilization = 1.0, and
\* otherwise is positive and at most max_load_capacity_kg; it is
\* max_load_capacity_kg * (1 - max_utilization).
C13_RemainingBySignOfReserve ==
    \A i \in Standing :
        LET r == results[i].value
        IN  /\ RatLt(r.remaining_capacity_kg, R(0)) <=> RatGt(r.max_utilization, R(1))
            /\ RatGt(r.max_utilization, R(1)) <=> r.status = "FAIL - Structure is overstressed!"
            /\ RatIsZero(r.remaining_capacity_kg) <=> RatEq(r.max_utilization, R(1))
            /\ RatLt(r.max_utilization, R(1))
                   => /\ RatGt(r.remaining_capacity_kg, R(0))
                      /\ RatLe(r.remaining_capacity_kg, r.max_load_capacity_kg)
            /\ RatEq(r.remaining_capacity_kg,
                     RatMul(r.max_load_capacity_kg, RatSub(R(1), r.max_utilization)))

\* one tower has been analysed with a reserve, under an uplift with all of its
\* capacity left, at max_utilization 1 with none left, and overstressed with a
\* negative remaining capacity
C13_Witness ==
    /\ \E i \in Standing :
           /\ RatLt(results[i].value.max_utilization, R(1))
           /\ RatGt(results[i].value.max_utilization, R(0))
           /\ RatGt(results[i].value.remaining_capacity_kg, R(0))
           /\ RatLt(results[i].value.remaining_capacity_kg, results[i].value.max_load_capacity_kg)
    /\ \E i \in Standing :
           /\ RatLt(results[i].call.applied_load_kg, R(0))
           /\ RatIsZero(results[i].value.max_utilization)
           /\ RatEq(results[i].value.remaining_capacity_kg, results[i].value.max_load_capacity_kg)
    /\ \E i \in Standing :
           /\ RatEq(results[i].value.max_utilization, R(1))
           /\ RatIsZero(results[i].value.remaining_capacity_kg)
    /\ \E i \in Standing :
           /\ results[i].value.status = "FAIL - Structure is overstressed!"
           /\ RatLt(results[i].value.remaining_capacity_kg, R(0))

-----------------------------------------------------------------------------
(* Properties of calculate_kz for the exposures B and D, over SpecKz       *)

\* C14: for the exposures B and D, Kz(h) is non-decreasing in h for all h >= 0; in
\* particular the power-law value at the last breakpoint threshold (15.2 m for B,
\* 9.1 m for D) is not lower than the last table value (0.66 for B, 1.16 for D)
\* returned just below that threshold.
C14_KzNonDecreasingBD ==
    /\ \A i \in KzResults : \A j \in KzResults :
           (/\ results[i].call.exposure \in {"B", "D"}
            /\ results[j].call.exposure = results[i].call.exposure
            /\ RatLe(results[i].call.height_m, results[j].call.height_m))
           => RatLe(results[i].value, results[j].value)
    /\ \A i \in KzResults :
           LET breakpoints == TableOf(results[i].call.exposure).breakpoints
           IN  (/\ results[i].call.exposure \in {"B", "D"}
                /\ results[i].call.height_m = breakpoints[Len(breakpoints)][1])
               => RatLe(breakpoints[Len(breakpoints)][2], results[i].value)

=============================================================================
